---- MODULE Spec2Model ----
(***************************************************************************)
(* Packed-sequence causal generation (apps/main/generate.py): the batcher, *)
(* the cache layout planner, the prefill and decode masks, the KV cache    *)
(* and the decode loop of PackedCausalTransformerGenerator.generate, with  *)
(* the byte-level tokenizer of lingua/tokenizer.py.                        *)
(*                                                                         *)
(* Tensors are functions on 0..n-1 (0-based, as in the source); Python     *)
(* lists are sequences.  Text is a sequence of character codes.            *)
(***************************************************************************)
EXTENDS Integers, Sequences, FiniteSets, TLC

VARIABLES
    \* PackedCausalTransformerGeneratorArgs / the generator's configuration
    max_gen_len, max_tokens, max_prompt_len, until,
    \* the model's max_seqlen attribute (None: the model has none)
    model_max_seqlen,
    \* the attributes setup_prefilling / setup_generation assign
    padded_doc_start, prefill_doc_id, prefill_tok_id, padded_doc_id,
    padded_tok_id, current_doc_id, current_tok_id, prefill_mask,
    \* the attention module's KVCache (absent until clear_cache attaches it)
    kv_cache,
    \* locals of setup_prefilling and generate_next_token, kept for inspection
    padded_lengths, mask,
    \* locals of generate
    prompts, cut_prompts, batches, batch_no, packed_batch, lengths,
    generated_tokens, is_done, i, generation, loglikelihood, greedy,
    all_tokens,
    \* the index tensors (self.offset + tok_idx) of the KVCache.update calls
    \* of the current sub-batch, in call order
    writes,
    \* the sampling policy of the configuration, and the logits and results
    \* of direct calls of sample_tokens
    temperature, top_p, top_k, logits, sampled,
    \* arguments of a direct call of batch_prompts / setup_prefilling
    arg_lengths, arg_max_elements,
    \* control: where the program is, and how many decode steps the current
    \* sub-batch has run
    pc, n_steps

cfgVars == <<max_gen_len, max_tokens, max_prompt_len, until,
            model_max_seqlen>>
genVars == <<padded_doc_start, prefill_doc_id, prefill_tok_id, padded_doc_id,
             padded_tok_id, current_doc_id, current_tok_id, prefill_mask>>
loopVars == <<prompts, cut_prompts, batches, batch_no, packed_batch, lengths,
              generated_tokens, is_done, i, generation, loglikelihood, greedy,
              all_tokens, writes>>
sampVars == <<temperature, top_p, top_k, logits, sampled>>
argVars == <<arg_lengths, arg_max_elements>>
vars == <<cfgVars, genVars, kv_cache, padded_lengths, mask, loopVars, argVars,
          sampVars, pc, n_steps>>

(***************************************************************************)
(* Bounds of the model.                                                    *)
(***************************************************************************)
MaxSeqs == 3          \* sequences of a direct setup_prefilling call
MaxLen == 2           \* length of one sequence there
MaxGen == 3           \* largest max_gen_len
MaxCap == 7           \* largest max_tokens there
FlowMaxCap == 8       \* largest max_tokens of a generate call
BMaxPrompts == 4      \* prompts of a direct batch_prompts call
BMaxSize == 5         \* reserved length of one prompt there
BMaxElements == 7     \* largest max_elements there
MaxPrompts == 2       \* prompts of one generate call
MaxText == 1          \* characters of one prompt
PMaxSeqs == 3         \* sequences of a direct pack_prompts call
PMaxLen == 2          \* tokens of one sequence there
TMaxText == 2         \* characters of a text given to the tokenizer
SVocab == 2           \* vocabulary size of a direct sample_tokens call
SMaxLogit == 1        \* largest logit there, in units of ln 2

(***************************************************************************)
(* Python values.                                                          *)
(***************************************************************************)
\* Optional[int] = None: the absent value of an optional integer
None == -1
\* an attribute still None, where a tensor will be stored
NoTensor == <<>>
\* bool(x) of an optional integer: None and 0 are falsy
Truthy(x) == x # None /\ x # 0

Size(t) == Cardinality(DOMAIN t)
Tensor(s) == [k \in 0..(Len(s) - 1) |-> s[k + 1]]

RECURSIVE SumTo(_, _)
\* t[0] + ... + t[n-1]
SumTo(t, n) == IF n <= 0 THEN 0 ELSE SumTo(t, n - 1) + t[n - 1]
Sum(t) == SumTo(t, Size(t))

Max(a, b) == IF a >= b THEN a ELSE b

RECURSIVE Flatten(_)
\* torch.cat of a list of sequences: the sequences concatenated in order
Flatten(bs) == IF bs = <<>> THEN <<>> ELSE Head(bs) \o Flatten(Tail(bs))

(***************************************************************************)
(* lingua/transformer.py helpers                                           *)
(***************************************************************************)
\* doc_start = lengths.cumsum(0).roll(1); doc_start[0] = 0
lengths_to_start_ids(lens) == [d \in DOMAIN lens |-> SumTo(lens, d)]

\* repeat_interleave of a length vector rejects a negative entry
LocalIdsDefined(lens) == \A d \in DOMAIN lens : lens[d] >= 0

\* the document holding packed position p
DocOf(lens, p) ==
    CHOOSE d \in DOMAIN lens :
        /\ lengths_to_start_ids(lens)[d] <= p
        /\ p < lengths_to_start_ids(lens)[d] + lens[d]

\* (doc_id, tok_id): for each packed position its document and its position
\* within the document
lengths_to_local_ids(lens) ==
    LET total == Sum(lens)
        doc_id == [p \in 0..(total - 1) |-> DocOf(lens, p)]
        tok_id == [p \in 0..(total - 1) |->
                      p - lengths_to_start_ids(lens)[doc_id[p]]]
    IN  <<doc_id, tok_id>>

(***************************************************************************)
(* apps/main/transformer.py                                                *)
(***************************************************************************)
causal_mask(q_idx, kv_idx) == q_idx >= kv_idx

\* doc_mask_mod of generate_doc_mask_mod(mask_mod, lengths, kv_lengths):
\* query q_idx of the packed prompts against key slot kv_idx of the layout
generate_doc_mask_mod(lens, kv_lens, q_idx, kv_idx) ==
    LET q_ids == lengths_to_local_ids(lens)
        kv_ids == lengths_to_local_ids(kv_lens)
    IN  /\ q_ids[1][q_idx] = kv_ids[1][kv_idx]
        /\ causal_mask(q_ids[2][q_idx], kv_ids[2][kv_idx])

(***************************************************************************)
(* KVCache                                                                 *)
(***************************************************************************)
\* no kv_cache attribute on the attention module yet
NoCache == [present |-> FALSE, seqlen |-> 0, offset |-> NoTensor,
            k_cache |-> NoTensor]

\* KVCache.__init__: zero buffers of seqlen slots
KVCache(seqlen) ==
    [present |-> TRUE, seqlen |-> seqlen, offset |-> NoTensor,
     k_cache |-> [p \in 0..(seqlen - 1) |-> 0]]

\* KVCache.reset: zero the buffers and the offset
KVCacheReset(c) ==
    [c EXCEPT !.k_cache = [p \in DOMAIN c.k_cache |-> 0],
              !.offset = NoTensor]

\* self.offset + tok_idx: the slot each token of an update is written to
WriteIndex(c, tok_idx) == [t \in DOMAIN tok_idx |-> c.offset[t] + tok_idx[t]]

\* index_copy_ rejects an index outside the buffer
UpdateDefined(c, tok_idx) ==
    \A t \in DOMAIN tok_idx :
        c.offset[t] + tok_idx[t] \in 0..(c.seqlen - 1)

\* KVCache.update: slot offset + tok_idx of each token takes the new value
KVCacheUpdate(c, tok_idx, val) ==
    [c EXCEPT !.k_cache =
        [p \in DOMAIN c.k_cache |->
            IF \E t \in DOMAIN tok_idx : c.offset[t] + tok_idx[t] = p
            THEN val ELSE c.k_cache[p]]]

\* torch.zeros of the cache shape needs an integer seqlen
ClearCacheRaises == ~kv_cache.present /\ max_tokens = None

\* clear_cache(offset): attach a cache if there is none, set its offset
clear_cache(offset) ==
    [(IF kv_cache.present THEN kv_cache ELSE KVCache(max_tokens))
        EXCEPT !.offset = offset]

(***************************************************************************)
(* PackedCausalTransformerGenerator.setup_prefilling                       *)
(***************************************************************************)
\* lengths + self.max_gen_len
NaturalLengths(lens) == [d \in DOMAIN lens |-> lens[d] + max_gen_len]

\* max_tokens = self.max_tokens or padded_lengths.sum().item()
LocalMaxTokens(lens) ==
    IF Truthy(max_tokens) THEN max_tokens ELSE Sum(NaturalLengths(lens))

\* PaddedLengths without the fill of the last document
PaddedLengths_NoFill(lens) == NaturalLengths(lens)

\* padded_lengths after padded_lengths[-1] += max_tokens - padded_lengths.sum()
PaddedLengths(lens) ==
    LET pl == NaturalLengths(lens)
    IN  [pl EXCEPT ![Size(lens) - 1] = @ + LocalMaxTokens(lens) - Sum(pl)]

\* PaddedDocStart taken from the prompt lengths instead of the padded ones
PaddedDocStart_Unpadded(lens) == lengths_to_start_ids(lens)

\* self.padded_doc_start = lengths_to_start_ids(padded_lengths)
PaddedDocStart(lens) == lengths_to_start_ids(PaddedLengths(lens))

\* torch.repeat_interleave(self.padded_doc_start, lengths)
PrefillOffset(lens) ==
    [p \in 0..(Sum(lens) - 1) |-> PaddedDocStart(lens)[DocOf(lens, p)]]

\* create_block_mask(doc_mask_mod, 1, None, lengths.sum(), max_tokens): the
\* visible (query, key slot) pairs
PrefillMask(lens) ==
    {qk \in (0..(Sum(lens) - 1)) \X (0..(LocalMaxTokens(lens) - 1)) :
        generate_doc_mask_mod(lens, PaddedLengths(lens), qk[1], qk[2])}

\* setup_prefilling raises: in clear_cache, or in lengths_to_local_ids of a
\* negative padded length
SetupPrefillingRaises(lens) ==
    ClearCacheRaises \/ ~LocalIdsDefined(PaddedLengths(lens))

setup_prefilling(lens) ==
    /\ padded_lengths' = PaddedLengths(lens)
    /\ padded_doc_start' = PaddedDocStart(lens)
    /\ kv_cache' = IF ClearCacheRaises THEN kv_cache
                   ELSE clear_cache(PrefillOffset(lens))
    /\ IF SetupPrefillingRaises(lens)
       THEN UNCHANGED <<prefill_mask, prefill_doc_id, prefill_tok_id,
                        padded_doc_id, padded_tok_id>>
       ELSE /\ prefill_mask' = PrefillMask(lens)
            /\ prefill_doc_id' = lengths_to_local_ids(lens)[1]
            /\ prefill_tok_id' = lengths_to_local_ids(lens)[2]
            /\ padded_doc_id' = lengths_to_local_ids(PaddedLengths(lens))[1]
            /\ padded_tok_id' = lengths_to_local_ids(PaddedLengths(lens))[2]

(***************************************************************************)
(* A direct call of setup_prefilling on any length vector.                 *)
(***************************************************************************)
\* the generator as __init__ leaves it
FreshGenerator ==
    /\ padded_doc_start = NoTensor /\ prefill_doc_id = NoTensor
    /\ prefill_tok_id = NoTensor /\ padded_doc_id = NoTensor
    /\ padded_tok_id = NoTensor /\ current_doc_id = NoTensor
    /\ current_tok_id = NoTensor /\ prefill_mask = {}

\* generate has not been called
IdleLoop ==
    /\ cut_prompts = <<>> /\ batches = <<>> /\ batch_no = 0
    /\ packed_batch = <<>> /\ lengths = NoTensor
    /\ generated_tokens = <<>> /\ is_done = <<>>
    /\ i = 0 /\ generation = <<>> /\ loglikelihood = <<>> /\ greedy = <<>>
    /\ all_tokens = NoTensor /\ writes = <<>>
    /\ padded_lengths = NoTensor /\ mask = {} /\ n_steps = 0

\* the default sampling policy of the configuration; sample_tokens not called
IdleSampler ==
    /\ temperature = 0 /\ top_p = None /\ top_k = None
    /\ logits = NoTensor /\ sampled = <<>>

LengthVectors ==
    UNION {[0..(n - 1) -> 0..MaxLen] : n \in 1..MaxSeqs}

InitPlanner ==
    /\ max_gen_len \in 0..MaxGen
    /\ max_tokens \in {None} \cup 0..MaxCap
    /\ max_prompt_len = None /\ until = <<>> /\ model_max_seqlen = None
    /\ FreshGenerator /\ prompts = <<>> /\ IdleLoop /\ IdleSampler
    /\ kv_cache \in {NoCache} \cup
          {KVCache(IF max_tokens = None THEN MaxCap ELSE max_tokens)}
    /\ arg_lengths \in LengthVectors
    /\ arg_max_elements = 0
    /\ pc = "call_setup_prefilling"

CallSetupPrefilling ==
    /\ pc = "call_setup_prefilling"
    /\ setup_prefilling(arg_lengths)
    /\ pc' = IF SetupPrefillingRaises(arg_lengths) THEN "setup_raised"
             ELSE "setup_returned"
    /\ UNCHANGED <<cfgVars, current_doc_id, current_tok_id, mask, loopVars,
                   argVars, sampVars, n_steps>>

NextPlanner == CallSetupPrefilling

SpecPlanner == InitPlanner /\ [][NextPlanner]_vars

(***************************************************************************)
(* batch_prompts                                                           *)
(***************************************************************************)
\* lengths=None
NoLengths == <<>>

RECURSIVE batch_loop(_, _, _, _, _, _, _)
\* the for loop from prompt k on, then the final append
batch_loop(ps, max_elements, lens, k, bs, current_batch, current_count) ==
    IF k > Len(ps)
    THEN IF current_batch # <<>> THEN Append(bs, current_batch) ELSE bs
    ELSE LET prt == ps[k]
             prompt_size == IF lens = NoLengths THEN Len(prt) ELSE lens[k]
         IN  IF current_count + prompt_size <= max_elements
             THEN batch_loop(ps, max_elements, lens, k + 1, bs,
                             Append(current_batch, prt),
                             current_count + prompt_size)
             ELSE batch_loop(ps, max_elements, lens, k + 1,
                             IF current_batch # <<>>
                             THEN Append(bs, current_batch) ELSE bs,
                             <<prt>>, prompt_size)

RECURSIVE batch_loop_KeepCount(_, _, _, _, _, _, _)
\* batch_loop that starts a new batch without counting its first prompt
batch_loop_KeepCount(ps, max_elements, lens, k, bs, current_batch,
                     current_count) ==
    IF k > Len(ps)
    THEN IF current_batch # <<>> THEN Append(bs, current_batch) ELSE bs
    ELSE LET prt == ps[k]
             prompt_size == IF lens = NoLengths THEN Len(prt) ELSE lens[k]
         IN  IF current_count + prompt_size <= max_elements
             THEN batch_loop_KeepCount(ps, max_elements, lens, k + 1, bs,
                                       Append(current_batch, prt),
                                       current_count + prompt_size)
             ELSE batch_loop_KeepCount(ps, max_elements, lens, k + 1,
                                       IF current_batch # <<>>
                                       THEN Append(bs, current_batch) ELSE bs,
                                       <<prt>>, 0)

\* batch_prompts with that loop
batch_prompts_KeepCount(ps, max_elements, lens) ==
    batch_loop_KeepCount(ps, max_elements, lens, 1, <<>>, <<>>, 0)

\* batch_prompts without the final append of the open batch
batch_prompts_DropLast(ps, max_elements, lens) ==
    LET bs == batch_loop(ps, max_elements, lens, 1, <<>>, <<>>, 0)
    IN  IF bs = <<>> THEN bs ELSE SubSeq(bs, 1, Len(bs) - 1)

\* batch_prompts that closes the sub-batch after every prompt
batch_prompts_Eager(ps, max_elements, lens) ==
    [k \in 1..Len(ps) |-> <<ps[k]>>]

batch_prompts(ps, max_elements, lens) ==
    batch_loop(ps, max_elements, lens, 1, <<>>, <<>>, 0)

(***************************************************************************)
(* A direct call of batch_prompts on any prompts, lengths and maximum.     *)
(***************************************************************************)
\* prompt k as n copies of the token k
Tagged(k, n) == [j \in 1..n |-> k]

\* lengths=None: prompts of any size;  lengths given: any reserved lengths
BatcherInputs ==
    UNION {
        {[ps |-> [k \in 1..n |-> Tagged(k, sz[k])], lens |-> NoLengths] :
            sz \in [1..n -> 0..BMaxSize]}
        \cup
        {[ps |-> [k \in 1..n |-> Tagged(k, 1)], lens |-> sz] :
            sz \in [1..n -> 0..BMaxSize]}
        : n \in 0..BMaxPrompts}

InitBatcher ==
    /\ max_gen_len = 0 /\ max_tokens = None /\ max_prompt_len = None
    /\ until = <<>> /\ model_max_seqlen = None
    /\ FreshGenerator /\ kv_cache = NoCache
    /\ \E in \in BatcherInputs :
          /\ prompts = in.ps
          /\ arg_lengths = in.lens
    /\ IdleLoop /\ IdleSampler
    /\ arg_max_elements \in 0..BMaxElements
    /\ pc = "call_batch_prompts"

CallBatchPrompts ==
    /\ pc = "call_batch_prompts"
    /\ batches' = batch_prompts(prompts, arg_max_elements, arg_lengths)
    /\ pc' = "batch_prompts_returned"
    /\ UNCHANGED <<cfgVars, genVars, kv_cache, padded_lengths, mask, prompts,
                   cut_prompts, batch_no, packed_batch, lengths,
                   generated_tokens, is_done, i, generation, loglikelihood,
                   greedy, all_tokens, writes, argVars, sampVars, n_steps>>

NextBatcher == CallBatchPrompts

SpecBatcher == InitBatcher /\ [][NextBatcher]_vars

(***************************************************************************)
(* lingua/tokenizer.py: ByteTokenizer.  Text is a sequence of code points  *)
(* below 2048, which UTF-8 writes in one or two bytes.                     *)
(***************************************************************************)
bos_id == 256
eos_id == 257

\* str.encode() of one character: UTF-8
Utf8Char(cp) ==
    IF cp < 128 THEN <<cp>> ELSE <<192 + (cp \div 64), 128 + (cp % 64)>>

RECURSIVE Utf8Encode(_)
\* s.encode()
Utf8Encode(s) ==
    IF s = <<>> THEN <<>> ELSE Utf8Char(Head(s)) \o Utf8Encode(Tail(s))

\* a hexadecimal digit as a character
HexDigit(n) == IF n < 10 THEN 48 + n ELSE 87 + n

\* errors="backslashreplace": the byte b written as \xNN
BackslashReplace(b) == <<92, 120, HexDigit(b \div 16), HexDigit(b % 16)>>

RECURSIVE Utf8Decode(_)
\* bytes.decode("utf-8", errors="backslashreplace"): one-byte characters,
\* two-byte characters (lead byte 194..223 and a continuation byte), and
\* every other byte replaced
Utf8Decode(bs) ==
    IF bs = <<>> THEN <<>>
    ELSE IF bs[1] < 128 THEN <<bs[1]>> \o Utf8Decode(Tail(bs))
    ELSE IF /\ bs[1] \in 194..223
            /\ Len(bs) >= 2
            /\ bs[2] \in 128..191
         THEN <<(bs[1] - 192) * 64 + (bs[2] - 128)>>
                  \o Utf8Decode(Tail(Tail(bs)))
         ELSE BackslashReplace(bs[1]) \o Utf8Decode(Tail(bs))

\* ByteTokenizer.encode
encode(s, add_bos, add_eos) ==
    (IF add_bos THEN <<bos_id>> ELSE <<>>) \o Utf8Encode(s)
        \o (IF add_eos THEN <<eos_id>> ELSE <<>>)

\* decode that keeps the tokens from 256 on
decode_KeepAll(tokens) == Utf8Decode(tokens)

\* ByteTokenizer.decode: the tokens below 256, as bytes, decoded
decode(tokens) == Utf8Decode(SelectSeq(tokens, LAMBDA t : t < 256))

(***************************************************************************)
(* Python list and string operations                                       *)
(***************************************************************************)
Min(a, b) == IF a <= b THEN a ELSE b

\* p[-m:]
LastSlice(p, m) ==
    IF m > 0 THEN SubSeq(p, Max(Len(p) - m, 0) + 1, Len(p))
    ELSE SubSeq(p, Min(0 - m, Len(p)) + 1, Len(p))

\* e in s, for strings
Contains(e, s) ==
    \E k \in 0..(Len(s) - Len(e)) : SubSeq(s, k + 1, k + Len(e)) = e

RECURSIVE MaxLenOf(_)
\* max([len(e) for e in strs])
MaxLenOf(strs) ==
    IF Len(strs) = 1 THEN Len(strs[1])
    ELSE Max(Len(Head(strs)), MaxLenOf(Tail(strs)))

\* self.max_until_size
max_until_size == IF until # <<>> THEN MaxLenOf(until) ELSE 1

(***************************************************************************)
(* pack_prompts                                                            *)
(***************************************************************************)
\* pack_prompts that concatenates from the last prompt to the first
pack_prompts_Reversed(batch) ==
    <<Flatten([k \in 1..Len(batch) |-> batch[Len(batch) + 1 - k]]),
      [d \in 0..(Len(batch) - 1) |-> Len(batch[d + 1])]>>

\* (res, lengths): the prompts concatenated, and their lengths
pack_prompts(batch) ==
    <<Flatten(batch), [d \in 0..(Len(batch) - 1) |-> Len(batch[d + 1])]>>

\* torch.cat of an empty list of tensors raises
PackPromptsRaises(batch) == batch = <<>>

(***************************************************************************)
(* PackedCausalTransformerGenerator.generate                               *)
(***************************************************************************)
\* the tokens the model's logits can make the sampler return
Vocab == {97, eos_id}

\* max_seqlen of generate
max_seqlen ==
    IF model_max_seqlen = None THEN max_tokens ELSE model_max_seqlen

\* the local max_prompt_len of generate
max_prompt_len_used ==
    IF Truthy(max_prompt_len) THEN max_prompt_len
    ELSE Min(max_seqlen - max_gen_len, max_tokens - max_gen_len)

\* arithmetic or comparison on a None max_tokens / max_seqlen raises
GenerateRaises ==
    \/ ~Truthy(max_prompt_len) /\ (max_tokens = None \/ max_seqlen = None)
    \/ max_tokens = None /\ prompts # <<>>

\* tokenize, truncate, account for the generation, batch
GenerateStart ==
    /\ pc = "generate"
    /\ IF GenerateRaises
       THEN /\ pc' = "raised"
            /\ UNCHANGED <<cut_prompts, batches, batch_no>>
       ELSE LET toks == [k \in 1..Len(prompts) |->
                            encode(prompts[k], TRUE, FALSE)]
                cut == [k \in 1..Len(prompts) |->
                            LastSlice(toks[k], max_prompt_len_used)]
                reserved == [k \in 1..Len(prompts) |->
                                Len(cut[k]) + max_gen_len]
            IN  /\ cut_prompts' = cut
                /\ batches' = batch_prompts(cut, max_tokens, reserved)
                /\ batch_no' = 1
                /\ pc' = IF batches' = <<>> THEN "returned" ELSE "prefill"
    /\ UNCHANGED <<cfgVars, genVars, kv_cache, padded_lengths, mask, prompts,
                   packed_batch, lengths, generated_tokens, is_done, i,
                   generation, loglikelihood, greedy, all_tokens, writes,
                   argVars, sampVars, n_steps>>

\* the forward pass of prefill raises: its cache write is out of range
PrefillForwardRaises(lens) ==
    ~UpdateDefined(clear_cache(PrefillOffset(lens)),
                   lengths_to_local_ids(lens)[2])

\* GenerationOffset with every sequence at the start of the cache
GenerationOffset_Zero(lens) == [d \in DOMAIN lens |-> 0]

\* setup_generation: module.kv_cache.offset = self.padded_doc_start
GenerationOffset(lens) == PaddedDocStart(lens)

\* the head of the loop body and self.prefill: pack, setup_prefilling, the
\* forward pass (which writes the prompt's keys), setup_generation
Prefill ==
    /\ pc = "prefill"
    /\ LET batch == batches[batch_no]
           lens == pack_prompts(batch)[2]
       IN  /\ generated_tokens' = [d \in DOMAIN lens |-> <<>>]
           /\ is_done' = [d \in DOMAIN lens |-> FALSE]
           /\ packed_batch' = pack_prompts(batch)[1]
           /\ lengths' = lens
           /\ n_steps' = 0
           /\ IF SetupPrefillingRaises(lens)
              THEN /\ setup_prefilling(lens)
                   /\ pc' = "raised"
                   /\ writes' = <<>>
                   /\ UNCHANGED <<current_tok_id, current_doc_id>>
              ELSE IF PrefillForwardRaises(lens)
              THEN /\ setup_prefilling(lens)
                   /\ pc' = "raised"
                   /\ writes' = <<>>
                   /\ UNCHANGED <<current_tok_id, current_doc_id>>
              ELSE /\ padded_lengths' = PaddedLengths(lens)
                   /\ padded_doc_start' = PaddedDocStart(lens)
                   /\ prefill_mask' = PrefillMask(lens)
                   /\ prefill_doc_id' = lengths_to_local_ids(lens)[1]
                   /\ prefill_tok_id' = lengths_to_local_ids(lens)[2]
                   /\ padded_doc_id' =
                          lengths_to_local_ids(PaddedLengths(lens))[1]
                   /\ padded_tok_id' =
                          lengths_to_local_ids(PaddedLengths(lens))[2]
                   \* forward: KVCache.update at offset + prefill_tok_id,
                   \* then setup_generation
                   /\ kv_cache' =
                          [KVCacheUpdate(clear_cache(PrefillOffset(lens)),
                                         lengths_to_local_ids(lens)[2],
                                         batch_no)
                              EXCEPT !.offset = GenerationOffset(lens)]
                   /\ writes' =
                          <<WriteIndex(clear_cache(PrefillOffset(lens)),
                                       lengths_to_local_ids(lens)[2])>>
                   /\ current_tok_id' = lens
                   /\ current_doc_id' = [d \in DOMAIN lens |-> d]
                   /\ pc' = "seed"
    /\ UNCHANGED <<cfgVars, mask, prompts, cut_prompts, batches, batch_no, i,
                   generation, loglikelihood, greedy, all_tokens, argVars,
                   sampVars>>

\* InRange with the end of the range included
InRange_Inclusive(k) == k <= max_gen_len

\* k in range(1, self.max_gen_len), for k >= 1
InRange(k) == k < max_gen_len

\* lengths.cumsum(0) - 1, as an index into the packed positions (a negative
\* index counts from the end)
SeedIndex(d) ==
    LET k == SumTo(lengths, d + 1) - 1
    IN  IF k < 0 THEN k + Sum(lengths) ELSE k

\* sample a token at each prompt position, record the one at each
\* sequence's last prompt token
Seed ==
    /\ pc = "seed"
    /\ IF Sum(lengths) = 0
       THEN /\ pc' = "raised"
            /\ UNCHANGED <<generated_tokens, i, all_tokens>>
       ELSE \E sampled_tokens \in [0..(Sum(lengths) - 1) -> Vocab] :
                /\ all_tokens' = sampled_tokens
                /\ generated_tokens' =
                       [d \in DOMAIN lengths |->
                           Append(generated_tokens[d],
                                  sampled_tokens[SeedIndex(d)])]
                /\ i' = 1
                /\ pc' = IF InRange(1) THEN "decode" ELSE "emit"
    /\ UNCHANGED <<cfgVars, genVars, kv_cache, padded_lengths, mask, prompts,
                   cut_prompts, batches, batch_no, packed_batch, lengths,
                   is_done, generation, loglikelihood, greedy, writes,
                   argVars, sampVars, n_steps>>

\* DecodeMask that also shows the slot after the current position
DecodeMask_Ahead ==
    {dp \in (DOMAIN current_doc_id) \X (DOMAIN padded_doc_id) :
        /\ current_doc_id[dp[1]] = padded_doc_id[dp[2]]
        /\ current_tok_id[dp[1]] + 1 >= padded_tok_id[dp[2]]}

\* DecodeMask with a strict comparison of positions
DecodeMask_Strict ==
    {dp \in (DOMAIN current_doc_id) \X (DOMAIN padded_doc_id) :
        /\ current_doc_id[dp[1]] = padded_doc_id[dp[2]]
        /\ current_tok_id[dp[1]] > padded_tok_id[dp[2]]}

\* mask = doc_mask & caus_mask of generate_next_token: the visible
\* (sequence, cache slot) pairs
DecodeMask ==
    {dp \in (DOMAIN current_doc_id) \X (DOMAIN padded_doc_id) :
        /\ current_doc_id[dp[1]] = padded_doc_id[dp[2]]
        /\ current_tok_id[dp[1]] >= padded_tok_id[dp[2]]}

\* the stop test on sequence d after appending tok
IsDoneAfter(d, tok) ==
    LET current_end_str ==
            decode(LastSlice(Append(generated_tokens[d], tok),
                             max_until_size))
        contains_end_string ==
            \E k \in 1..Len(until) : Contains(until[k], current_end_str)
    IN  contains_end_string \/ tok = eos_id

\* AppendIfNotDone without the test of is_done
AppendIfNotDone_Always(d, tok) == Append(generated_tokens[d], tok)

\* what one pass of the loop body does to sequence d, given its token
AppendIfNotDone(d, tok) ==
    IF ~is_done[d] THEN Append(generated_tokens[d], tok)
    ELSE generated_tokens[d]

\* AdvanceTokId that leaves finished sequences where they are
AdvanceTokId_SkipDone ==
    [d \in DOMAIN current_tok_id |->
        IF is_done[d] THEN current_tok_id[d] ELSE current_tok_id[d] + 1]

\* self.current_tok_id += 1
AdvanceTokId == [d \in DOMAIN current_tok_id |-> current_tok_id[d] + 1]

\* one pass of `for i in range(1, self.max_gen_len)`: generate_next_token,
\* sample, append and test each unfinished sequence, leave when all are done.
\* all_tokens is not read after the seed was taken and is dropped here.
Step ==
    /\ pc = "decode"
    /\ mask' = DecodeMask
    /\ all_tokens' = NoTensor
    /\ IF ~UpdateDefined(kv_cache, current_tok_id)
       THEN /\ pc' = "raised"
            /\ UNCHANGED <<kv_cache, current_tok_id, generated_tokens,
                           is_done, i, n_steps, writes>>
       ELSE /\ kv_cache' = KVCacheUpdate(kv_cache, current_tok_id, batch_no)
            /\ writes' = Append(writes, WriteIndex(kv_cache, current_tok_id))
            /\ current_tok_id' = AdvanceTokId
            /\ n_steps' = n_steps + 1
            /\ \E next_token \in [DOMAIN lengths -> Vocab] :
                  /\ generated_tokens' =
                         [d \in DOMAIN lengths |->
                             AppendIfNotDone(d, next_token[d])]
                  /\ is_done' =
                         [d \in DOMAIN lengths |->
                             IF ~is_done[d] THEN IsDoneAfter(d, next_token[d])
                             ELSE is_done[d]]
            /\ IF \A d \in DOMAIN lengths : is_done'[d]
               THEN /\ pc' = "emit"
                    /\ i' = i
               ELSE /\ i' = i + 1
                    /\ pc' = IF InRange(i + 1) THEN "decode" ELSE "emit"
    /\ UNCHANGED <<cfgVars, padded_doc_start, prefill_doc_id, prefill_tok_id,
                   padded_doc_id, padded_tok_id, current_doc_id, prefill_mask,
                   padded_lengths, prompts, cut_prompts, batches, batch_no,
                   packed_batch, lengths, generation, loglikelihood, greedy,
                   argVars, sampVars>>

\* ScoredTargets that scores the whole prompt
ScoredTargets_Whole(p) == p

\* y = p[1:], one target per entry of x = logit[:-1]: the tokens that one
\* prompt's log-likelihood and greedy-match vectors score, entry by entry
ScoredTargets(p) == SubSeq(p, 2, Len(p))

\* the tail of the loop body: decode the generations, score the prompts,
\* go to the next sub-batch or return
Emit ==
    /\ pc = "emit"
    /\ generation' = generation \o
           [k \in 1..Size(lengths) |-> decode(generated_tokens[k - 1])]
    /\ loglikelihood' = loglikelihood \o
           [k \in 1..Size(lengths) |-> ScoredTargets(batches[batch_no][k])]
    /\ greedy' = greedy \o
           [k \in 1..Size(lengths) |-> ScoredTargets(batches[batch_no][k])]
    /\ all_tokens' = NoTensor
    /\ batch_no' = batch_no + 1
    /\ pc' = IF batch_no < Len(batches) THEN "prefill" ELSE "returned"
    /\ UNCHANGED <<cfgVars, genVars, kv_cache, padded_lengths, mask, prompts,
                   cut_prompts, batches, packed_batch, lengths,
                   generated_tokens, is_done, i, writes, argVars, sampVars,
                   n_steps>>

\* texts of 0..MaxText characters
Texts == {[j \in 1..n |-> 97] : n \in 0..MaxText}

\* the stop-string lists tried: none, and "aa" with "a" doubled up to "aaa"
Untils == {<<>>, <<<<97, 97, 97>>, <<97, 97>>>>}

\* (max_prompt_len, the model's max_seqlen) tried: neither, a configured
\* prompt length, a model limit
Truncations == {<<None, None>>, <<1, None>>, <<None, 1>>}

Init ==
    /\ max_gen_len \in 0..MaxGen
    /\ max_tokens \in {None} \cup 0..FlowMaxCap
    /\ \E tr \in Truncations :
          max_prompt_len = tr[1] /\ model_max_seqlen = tr[2]
    /\ until \in Untils
    /\ FreshGenerator /\ kv_cache = NoCache
    /\ prompts \in UNION {[1..n -> Texts] : n \in 0..MaxPrompts}
    /\ IdleLoop /\ IdleSampler
    /\ arg_lengths = NoLengths /\ arg_max_elements = 0
    /\ pc = "generate"

Next == GenerateStart \/ Prefill \/ Seed \/ Step \/ Emit

Spec == Init /\ [][Next]_vars

\* generate runs on one thread, statement after statement: a step that can
\* be taken is taken
SpecLive == Init /\ [][Next]_vars /\ WF_vars(Next)

(***************************************************************************)
(* A direct call of pack_prompts on any list of token sequences.           *)
(***************************************************************************)
\* token sequences of a character and the begin-of-sequence id
PackerSequences ==
    UNION {[1..n -> {97, bos_id}] : n \in 0..PMaxLen}

InitPacker ==
    /\ max_gen_len = 0 /\ max_tokens = None /\ max_prompt_len = None
    /\ until = <<>> /\ model_max_seqlen = None
    /\ FreshGenerator /\ kv_cache = NoCache
    /\ prompts \in UNION {[1..n -> PackerSequences] : n \in 0..PMaxSeqs}
    /\ IdleLoop /\ IdleSampler
    /\ arg_lengths = NoLengths /\ arg_max_elements = 0
    /\ pc = "call_pack_prompts"

CallPackPrompts ==
    /\ pc = "call_pack_prompts"
    /\ IF PackPromptsRaises(prompts)
       THEN /\ pc' = "pack_prompts_raised"
            /\ UNCHANGED <<packed_batch, lengths>>
       ELSE /\ packed_batch' = pack_prompts(prompts)[1]
            /\ lengths' = pack_prompts(prompts)[2]
            /\ pc' = "pack_prompts_returned"
    /\ UNCHANGED <<cfgVars, genVars, kv_cache, padded_lengths, mask, prompts,
                   cut_prompts, batches, batch_no, generated_tokens, is_done,
                   i, generation, loglikelihood, greedy, all_tokens, writes,
                   argVars, sampVars, n_steps>>

NextPacker == CallPackPrompts

SpecPacker == InitPacker /\ [][NextPacker]_vars

(***************************************************************************)
(* ByteTokenizer.encode on any text and flags, then decode of its result.  *)
(***************************************************************************)
\* space, a, ~ (the first and last printable ASCII characters among them),
\* and e with acute accent
TokenizerChars == {32, 97, 126, 233}

InitTokenizer ==
    /\ max_gen_len = 0 /\ max_tokens = None /\ max_prompt_len = None
    /\ until = <<>> /\ model_max_seqlen = None
    /\ FreshGenerator /\ kv_cache = NoCache
    /\ \E text \in UNION {[1..n -> TokenizerChars] : n \in 0..TMaxText} :
          prompts = <<text>>
    /\ IdleLoop /\ IdleSampler
    /\ arg_lengths = NoLengths /\ arg_max_elements = 0
    /\ pc = "call_encode"

\* tokens = tokenizer.encode(text, add_bos, add_eos)
CallEncode ==
    /\ pc = "call_encode"
    /\ \E add_bos \in BOOLEAN, add_eos \in BOOLEAN :
          cut_prompts' = <<encode(prompts[1], add_bos, add_eos)>>
    /\ pc' = "call_decode"
    /\ UNCHANGED <<cfgVars, genVars, kv_cache, padded_lengths, mask, prompts,
                   batches, batch_no, packed_batch, lengths, generated_tokens,
                   is_done, i, generation, loglikelihood, greedy, all_tokens,
                   writes, argVars, sampVars, n_steps>>

\* tokenizer.decode(tokens)
CallDecode ==
    /\ pc = "call_decode"
    /\ generation' = <<decode(cut_prompts[1])>>
    /\ pc' = "decoded"
    /\ UNCHANGED <<cfgVars, genVars, kv_cache, padded_lengths, mask, prompts,
                   cut_prompts, batches, batch_no, packed_batch, lengths,
                   generated_tokens, is_done, i, loglikelihood, greedy,
                   all_tokens, writes, argVars, sampVars, n_steps>>

NextTokenizer == CallEncode \/ CallDecode

SpecTokenizer == InitTokenizer /\ [][NextTokenizer]_vars

(***************************************************************************)
(* generate on two prompts of 3 and 5 tokens (the begin-of-sequence token  *)
(* included) with max_gen_len = 2, with no cache capacity configured or    *)
(* with the capacity the two reserved spans add up to.                     *)
(***************************************************************************)
\* "aa" and "aaaa"
ScenarioPrompts == <<<<97, 97>>, <<97, 97, 97, 97>>>>

\* max_tokens: None, or (3 + 2) + (5 + 2)
ScenarioCapacities == {None, 12}

InitScenario ==
    /\ max_gen_len = 2
    /\ max_tokens \in ScenarioCapacities
    /\ max_prompt_len = None /\ model_max_seqlen = None
    /\ until = <<>>
    /\ FreshGenerator /\ kv_cache = NoCache
    /\ prompts = ScenarioPrompts
    /\ IdleLoop /\ IdleSampler
    /\ arg_lengths = NoLengths /\ arg_max_elements = 0
    /\ pc = "generate"

SpecScenario == InitScenario /\ [][Next]_vars

(***************************************************************************)
(* sample_tokens, sample_top_p, sample_top_k.                              *)
(* A logit l stands for l * ln 2, so that at temperature 1 the softmax of  *)
(* a row is 2^l / sum(2^l): a probability is kept as its integer weight    *)
(* 2^l, to be read over the row's total weight.  top_p is in percent.      *)
(***************************************************************************)
RECURSIVE Pow2(_)
Pow2(n) == IF n <= 0 THEN 1 ELSE 2 * Pow2(n - 1)

\* torch.softmax(logits / temperature, dim=-1) of one row, temperature 1
Softmax(row) == [t \in DOMAIN row |-> Pow2(row[t])]

\* the total weight of a row of probabilities (1, as a probability)
Total(probs) == Sum(probs)

\* the weight of the tokens in the set ts
RECURSIVE Mass(_, _)
Mass(probs, ts) ==
    IF ts = {} THEN 0
    ELSE LET t == CHOOSE u \in ts : TRUE
         IN  probs[t] + Mass(probs, ts \ {t})

\* torch.multinomial(probs, num_samples=1): any token of non-zero weight
multinomial(probs) == {t \in DOMAIN probs : probs[t] > 0}

\* sample_top_p: sort descending, zero the entries whose preceding mass
\* exceeds p, draw.  torch.sort may put equal probabilities in any order, so
\* a token can be drawn when the mass of the strictly larger ones is
\* within p.
sample_top_p(probs, p) ==
    {t \in multinomial(probs) :
        ~(100 * Mass(probs, {u \in DOMAIN probs : probs[u] > probs[t]})
              > p * Total(probs))}

\* topk_value[:, [-1]]: the k-th largest probability
min_value_top_k(probs, k) ==
    CHOOSE v \in {probs[t] : t \in DOMAIN probs} :
        /\ Cardinality({u \in DOMAIN probs : probs[u] > v}) < k
        /\ Cardinality({u \in DOMAIN probs : probs[u] >= v}) >= k

\* sample_top_k: zero what is below the k-th largest, renormalise, draw
sample_top_k(probs, k) ==
    multinomial([t \in DOMAIN probs |->
                    IF probs[t] < min_value_top_k(probs, k) THEN 0
                    ELSE probs[t]])

\* torch.argmax(row): the first index of the largest value
argmax(row) ==
    CHOOSE t \in DOMAIN row :
        /\ \A u \in DOMAIN row : row[u] <= row[t]
        /\ \A u \in DOMAIN row : u < t => row[u] < row[t]

\* the tokens one row can give
SampleRow(row, temp, p, k) ==
    IF temp > 0
    THEN IF p # None THEN sample_top_p(Softmax(row), p)
         ELSE IF k # None THEN sample_top_k(Softmax(row), k)
         ELSE multinomial(Softmax(row))
    ELSE {argmax(row)}

\* sample_tokens with the policy tested before the temperature
sample_tokens_PolicyFirst(lg, temp, p, k) ==
    {r \in [DOMAIN lg -> 0..(SVocab - 1)] :
        \A pos \in DOMAIN lg :
            r[pos] \in SampleRow(lg[pos],
                                 IF p # None \/ k # None THEN 1 ELSE temp,
                                 p, k)}

\* sample_tokens(logits, temperature, top_p, top_k): the results it can
\* return, one token per flattened position
sample_tokens(lg, temp, p, k) ==
    {r \in [DOMAIN lg -> 0..(SVocab - 1)] :
        \A pos \in DOMAIN lg : r[pos] \in SampleRow(lg[pos], temp, p, k)}

(***************************************************************************)
(* Construction of a generator with any sampling policy, then two calls of *)
(* sample_tokens on the same logits, as generate makes them.               *)
(***************************************************************************)
\* rows of logits over the vocabulary
LogitRows == [0..(SVocab - 1) -> 0..SMaxLogit]

\* logits of one or two flattened positions
LogitTensors == [{0} -> LogitRows] \cup [{0, 1} -> LogitRows]

\* greedy, or sampling at temperature 1
Temperatures == {0, 1}

\* top_p unset, 0.5, 0.9
TopPs == {None, 50, 90}

\* top_k unset, 1
TopKs == {None, 1}

InitSampler ==
    /\ temperature \in Temperatures
    /\ top_p \in TopPs
    /\ top_k \in TopKs
    /\ logits \in LogitTensors
    /\ sampled = <<>>
    /\ max_gen_len = 0 /\ max_tokens = None /\ max_prompt_len = None
    /\ until = <<>> /\ model_max_seqlen = None
    /\ FreshGenerator /\ kv_cache = NoCache
    /\ prompts = <<>> /\ IdleLoop
    /\ arg_lengths = NoLengths /\ arg_max_elements = 0
    /\ pc = "construct"

\* PackedCausalTransformerGenerator.__init__: the policy is stored as given
Construct ==
    /\ pc = "construct"
    /\ pc' = "constructed"
    /\ UNCHANGED <<cfgVars, genVars, kv_cache, padded_lengths, mask, loopVars,
                   argVars, sampVars, n_steps>>

\* sample_tokens(logits, self.temperature, self.top_p, self.top_k)
CallSampleTokens ==
    /\ pc \in {"constructed", "sampled_once"}
    /\ \E next_token \in sample_tokens(logits, temperature, top_p, top_k) :
          sampled' = Append(sampled, next_token)
    /\ pc' = IF pc = "constructed" THEN "sampled_once" ELSE "sampled_twice"
    /\ UNCHANGED <<cfgVars, genVars, kv_cache, padded_lengths, mask, loopVars,
                   argVars, temperature, top_p, top_k, logits, n_steps>>

NextSampler == Construct \/ CallSampleTokens

SpecSampler == InitSampler /\ [][NextSampler]_vars

(***************************************************************************)
(* Properties of the cache layout planner (under SpecPlanner).             *)
(***************************************************************************)
\* lines 218-224 of setup_prefilling have run
Planned == pc \in {"setup_returned", "setup_raised"}

\* sum(length[d] + G), computed from the arguments
NaturalTotal == SumTo(arg_lengths, Size(arg_lengths))
                    + Size(arg_lengths) * max_gen_len

\* the reserved range of document d
Span(d) ==
    {p \in Int : /\ padded_doc_start[d] <= p
                 /\ p < padded_doc_start[d] + padded_lengths[d]}

\* C1 as stated: with any configured capacity C (an integer, 0 included) the
\* padded lengths sum to C; with none they sum to the natural total.
C1_SumIsAnyCapacity ==
    Planned =>
        Sum(padded_lengths) =
            (IF max_tokens # None THEN max_tokens ELSE NaturalTotal)

\* C1, amended: with a non-zero configured capacity C the padded lengths sum
\* to exactly C; with no capacity, or a capacity of 0, they sum to the natural
\* total sum(length[d] + G).
C1_SumIsCapacity ==
    Planned =>
        Sum(padded_lengths) =
            (IF Truthy(max_tokens) THEN max_tokens ELSE NaturalTotal)

\* C1 witness: three documents laid out in a capacity larger than they need
C1_Witness ==
    /\ Planned /\ Size(arg_lengths) = 3
    /\ Truthy(max_tokens) /\ max_tokens > NaturalTotal
    /\ max_gen_len > 0

\* C2: every non-last document gets length + G, the last one gets
\* length + G + max(0, C - sum(length + G)), so every reserved span holds at
\* least the prompt and the whole generation budget.
C2_SpanHoldsPromptAndBudget ==
    Planned =>
        LET last == Size(arg_lengths) - 1
            extra == IF max_tokens = None THEN 0
                     ELSE Max(0, max_tokens - NaturalTotal)
        IN  /\ \A d \in DOMAIN arg_lengths :
                  padded_lengths[d] =
                      arg_lengths[d] + max_gen_len
                          + (IF d = last THEN extra ELSE 0)
            /\ \A d \in DOMAIN arg_lengths :
                  padded_lengths[d] >= arg_lengths[d] + max_gen_len

\* C3: start_offset[d] is the sum of the padded lengths before d; the
\* reserved ranges are pairwise disjoint and laid end to end from 0.
C3_SpansEndToEnd ==
    Planned =>
        /\ DOMAIN padded_doc_start = DOMAIN arg_lengths
        /\ padded_doc_start[0] = 0
        /\ \A d \in DOMAIN arg_lengths :
              /\ padded_doc_start[d] = SumTo(padded_lengths, d)
              /\ d > 0 => padded_doc_start[d] =
                              padded_doc_start[d - 1] + padded_lengths[d - 1]
        /\ \A d, e \in DOMAIN arg_lengths :
              d < e =>
                  \A p \in 0..(NaturalTotal + Max(0, max_tokens)) :
                      ~(p \in Span(d) /\ p \in Span(e))

\* C3 witness: three documents with reserved spans of different sizes
C3_Witness ==
    /\ pc = "setup_returned" /\ Size(arg_lengths) = 3
    /\ padded_lengths[0] > 0 /\ padded_lengths[1] > padded_lengths[0]
    /\ padded_lengths[2] > padded_lengths[1]

\* the packed index of the prompt token at local position q of document d
QueryIndex(d, q) == SumTo(arg_lengths, d) + q

\* the prefill mask shows key slot k of span d2 to query q of document d
\* exactly when d = d2 and q >= k (checked: holds under SpecPlanner)
PrefillMaskIsDocCausal ==
    pc = "setup_returned" =>
        \A d, d2 \in DOMAIN arg_lengths :
            \A q \in 0..(arg_lengths[d] - 1) :
                \A k \in 0..(padded_lengths[d2] - 1) :
                    (<<QueryIndex(d, q), padded_doc_start[d2] + k>>
                        \in prefill_mask) <=> (d = d2 /\ q >= k)

\* C6: a key slot is visible to a prompt token exactly when it is in the
\* token's own span at a local position <= the token's; so every prompt
\* token attends to itself, to no key of another document and to no
\* reserved-but-unwritten slot.
C6_PrefillVisibility ==
    pc = "setup_returned" =>
        /\ PrefillMaskIsDocCausal
        /\ \A d \in DOMAIN arg_lengths :
              \A q \in 0..(arg_lengths[d] - 1) :
                  /\ padded_doc_start[d] + q \in Span(d)
                  /\ <<QueryIndex(d, q), padded_doc_start[d] + q>>
                         \in prefill_mask
        /\ \A qk \in prefill_mask :
              \E d \in DOMAIN arg_lengths :
                  /\ qk[1] - SumTo(arg_lengths, d) \in 0..(arg_lengths[d] - 1)
                  /\ qk[2] \in Span(d)
                  /\ qk[2] - padded_doc_start[d] < arg_lengths[d]

(***************************************************************************)
(* Properties of the batcher (under SpecBatcher).                          *)
(***************************************************************************)
Batched == pc = "batch_prompts_returned"

\* the reserved length batch_prompts uses for input prompt k
SizeAt(k) ==
    IF arg_lengths = NoLengths THEN Len(prompts[k]) ELSE arg_lengths[k]

\* the number of prompts in the sub-batches before sub-batch b
BatchStart(b) == Len(Flatten(SubSeq(batches, 1, b - 1)))

RECURSIVE SizeSum(_, _)
\* the reserved lengths of input prompts from+1 .. from+n, added up
SizeSum(from, n) ==
    IF n = 0 THEN 0 ELSE SizeSum(from, n - 1) + SizeAt(from + n)

\* the total reserved length of sub-batch b
BatchTotal(b) == SizeSum(BatchStart(b), Len(batches[b]))

\* C4: a sub-batch's total reserved length is <= the maximum unless it is a
\* single prompt that is itself larger than the maximum; every such prompt
\* is alone in a sub-batch of its own, whole.
C4_BatchWithinMaximum ==
    Batched =>
        /\ \A b \in 1..Len(batches) :
              \/ BatchTotal(b) <= arg_max_elements
              \/ /\ Len(batches[b]) = 1
                 /\ SizeAt(BatchStart(b) + 1) > arg_max_elements
        /\ \A k \in 1..Len(prompts) :
              SizeAt(k) > arg_max_elements =>
                  \E b \in 1..Len(batches) :
                      /\ BatchStart(b) + 1 = k
                      /\ batches[b] = <<prompts[k]>>

\* C4 witness: an oversized prompt between two sub-batches that fit
C4_Witness ==
    /\ Batched /\ Len(prompts) = 4 /\ Len(batches) = 3
    /\ Len(batches[1]) = 2 /\ BatchTotal(1) = arg_max_elements
    /\ BatchTotal(2) > arg_max_elements
    /\ BatchTotal(3) > 0

\* C5: the sub-batches, concatenated in order, are the input prompt list, and
\* none of them is empty.
C5_OrderedPartition ==
    Batched =>
        /\ Flatten(batches) = prompts
        /\ \A b \in 1..Len(batches) : batches[b] # <<>>

\* C5 witness: four distinct prompts split over more than one sub-batch
C5_Witness ==
    /\ Batched /\ Len(prompts) = 4 /\ Len(batches) = 2
    /\ \A k \in 1..4 : prompts[k] = <<k>>
    /\ Len(batches[1]) = 3

\* C22: the batcher closes a sub-batch only when the next prompt would take
\* it over the maximum: for any two consecutive sub-batches the total
\* reserved length of the earlier one plus the reserved length of the first
\* prompt of the later one is greater than the maximum; reserved lengths
\* [3, 4, 5] with maximum 7 give the sub-batches [[3, 4], [5]].
C22_Greedy ==
    Batched =>
        /\ \A b \in 1..(Len(batches) - 1) :
              BatchTotal(b) + SizeAt(BatchStart(b + 1) + 1) > arg_max_elements
        /\ (arg_lengths = <<3, 4, 5>> /\ arg_max_elements = 7) =>
              batches = <<<<prompts[1], prompts[2]>>, <<prompts[3]>>>>

\* C22 witness: the reserved lengths [3, 4, 5] batched with maximum 7
C22_Witness ==
    /\ Batched
    /\ arg_lengths = <<3, 4, 5>> /\ arg_max_elements = 7
    /\ Len(batches) = 2 /\ Len(batches[1]) = 2

(***************************************************************************)
(* Properties of the decode loop (under Spec).                             *)
(***************************************************************************)
\* s ends with e
EndsWith(s, e) ==
    Len(e) <= Len(s) /\ SubSeq(s, Len(s) - Len(e) + 1, Len(s)) = e

\* the sub-batch has its seed tokens and has not been emitted
InSubBatch == pc \in {"decode", "emit"}

\* C7: at every decode step the mask shows cache slot p to sequence d, done
\* or not, exactly when p is in d's reserved span at a local position <= d's
\* current position.
C7_DecodeVisibility ==
    [][pc = "decode" =>
        /\ mask' \subseteq (DOMAIN lengths) \X (0..(kv_cache.seqlen - 1))
        /\ \A d \in DOMAIN lengths :
              \A p \in 0..(kv_cache.seqlen - 1) :
                  (<<d, p>> \in mask') <=>
                      /\ p \in Span(d)
                      /\ p - padded_doc_start[d] <= current_tok_id[d]]_vars

\* C7 witness: a second decode step, taken with sequence 0 already done,
\* still gave sequence 0 its mask row
C7_Witness ==
    /\ n_steps = 2 /\ Size(lengths) = 2
    /\ is_done[0] /\ Len(generated_tokens[0]) = 2
    /\ \E p \in 0..(kv_cache.seqlen - 1) :
          <<0, p>> \in mask /\ p - padded_doc_start[0] = lengths[0] + 1

\* C8: within a sub-batch a sequence that is done stays done and gets no
\* further token.
C8_DoneIsFinal ==
    [][pc # "prefill" =>
        \A d \in DOMAIN is_done :
            is_done[d] =>
                /\ is_done'[d]
                /\ generated_tokens'[d] = generated_tokens[d]]_vars

\* C8 witness: sequence 1 was done after the first decode step and the second
\* step gave a token to sequence 0 only
C8_Witness ==
    /\ n_steps = 2 /\ Size(lengths) = 2
    /\ is_done[1] /\ Len(generated_tokens[1]) = 2
    /\ Len(generated_tokens[0]) = 3

\* C9: after every appended token, the seed included, a sequence is done
\* exactly when that token is the end-of-sequence id or the decoded trailing
\* window ends with a stop string (stated for max_generation >= 1).
C9_DoneIffStopCondition ==
    (InSubBatch /\ max_gen_len >= 1) =>
        \A d \in DOMAIN lengths :
            LET g == generated_tokens[d]
                window == decode(LastSlice(g, max_until_size))
            IN  is_done[d] <=>
                    \/ g[Len(g)] = eos_id
                    \/ \E k \in 1..Len(until) : EndsWith(window, until[k])

JustSeeded == InSubBatch /\ all_tokens # NoTensor

\* C11: after prefill every sequence d of the sub-batch has exactly one
\* generated token, the one sampled at packed index
\* lengths[0] + ... + lengths[d] - 1, which is the last prompt token of
\* sequence d itself; its current position is its prompt length and its
\* current document id is d.
C11_SeedStep ==
    JustSeeded =>
        \A d \in DOMAIN lengths :
            LET k == SumTo(lengths, d + 1) - 1
            IN  /\ k \in DOMAIN all_tokens
                /\ prefill_doc_id[k] = d
                /\ prefill_tok_id[k] = lengths[d] - 1
                /\ generated_tokens[d] = <<all_tokens[k]>>
                /\ n_steps = 0
                /\ current_tok_id[d] = lengths[d]
                /\ current_doc_id[d] = d

\* the same, for the sub-batches in which every sequence has a prompt token
SeedStepOfNonEmptyPrompts ==
    (\A d \in DOMAIN lengths : lengths[d] >= 1) => C11_SeedStep

\* generate is inside its loop over the sub-batches, or has returned
Looping == pc \in {"prefill", "seed", "decode", "emit", "returned"}

\* the three output lists hold one entry for each prompt of the sub-batches
\* emitted so far, and sequence d of the current sub-batch is the prompt that
\* comes next in input order
OutputsFollowInputOrder ==
    LET emitted == IF pc = "returned" THEN Len(prompts)
                   ELSE BatchStart(batch_no)
    IN  /\ Len(generation) = emitted
        /\ Len(loglikelihood) = emitted
        /\ Len(greedy) = emitted
        /\ Len(cut_prompts) = Len(prompts)
        /\ \A k \in 1..emitted :
              /\ loglikelihood[k] = SubSeq(cut_prompts[k], 2, Len(cut_prompts[k]))
              /\ greedy[k] = SubSeq(cut_prompts[k], 2, Len(cut_prompts[k]))
        /\ pc \in {"seed", "decode", "emit"} =>
              \A d \in DOMAIN lengths :
                  /\ emitted + d + 1 \in 1..Len(cut_prompts)
                  /\ batches[batch_no][d + 1] = cut_prompts[emitted + d + 1]
                  /\ lengths[d] = Len(cut_prompts[emitted + d + 1])

\* C12: generate returns three lists of n entries for n prompts, entry k of
\* each belonging to prompt k also across sub-batch boundaries; the
\* log-likelihood and greedy-match vectors of prompt k have exactly
\* len(truncated tokenised prompt k) - 1 entries and score that prompt's
\* tokens.
C12_OutputsPerPrompt ==
    Looping =>
        /\ OutputsFollowInputOrder
        /\ \A k \in 1..Len(loglikelihood) :
              /\ Len(loglikelihood[k]) = Len(cut_prompts[k]) - 1
              /\ Len(greedy[k]) = Len(cut_prompts[k]) - 1

\* the same, for the calls in which every truncated prompt has a token
OutputsPerNonEmptyPrompt ==
    (\A k \in 1..Len(cut_prompts) : Len(cut_prompts[k]) >= 1)
        => C12_OutputsPerPrompt

\* the order of the outputs alone holds for every call
OutputsInOrder == Looping => OutputsFollowInputOrder

\* prompt k as tokenised by generate, before truncation
Tokenised(k) == encode(prompts[k], TRUE, FALSE)

\* the prompts handed to the batcher are the last min(len, max_prompt_len)
\* tokens of the tokenised prompts
KeepsLastTokens ==
    /\ Len(cut_prompts) = Len(prompts)
    /\ \A k \in 1..Len(prompts) :
          LET t == Tokenised(k)
              n == Min(Len(t), max_prompt_len_used)
          IN  /\ Len(cut_prompts[k]) <= max_prompt_len_used
              /\ Len(cut_prompts[k]) = n
              /\ cut_prompts[k] = SubSeq(t, Len(t) - n + 1, Len(t))

\* C13: for every configuration with an integer max_tokens, max_prompt_len
\* explicit or derived as min(max_seqlen, max_tokens) - max_gen_len (a derived
\* value <= 0 included), generate raises no error in truncation and hands the
\* batcher, for each prompt, at most max_prompt_len tokens: the last
\* min(len, max_prompt_len) tokens of the tokenised prompt.
C13_Truncation ==
    (max_tokens # None /\ pc # "generate") => KeepsLastTokens

\* the same, for the configurations whose max_prompt_len is at least 1
TruncationToPositiveLength ==
    (max_tokens # None /\ pc # "generate" /\ max_prompt_len_used >= 1)
        => KeepsLastTokens

\* C14: a zero-length token sequence is rejected before packing: no packed
\* sub-batch, and so no call of setup_prefilling, has a sequence of length 0
\* (lengths is the length vector pack_prompts returned and setup_prefilling
\* was called with).
C14_EmptyPromptRejected ==
    \A d \in DOMAIN lengths : lengths[d] >= 1

\* the reserved length of the current sub-batch: sum of lengths[d] + G
ReservedLength == Sum(NaturalLengths(lengths))

\* C16: a sub-batch whose reserved length exceeds the configured cache
\* capacity is answered with an error before any prefill: no KVCache.update
\* is ever made for it.
C16_OversizeRejected ==
    (Truthy(max_tokens) /\ writes # <<>>) => ReservedLength <= max_tokens

\* C17: the cache is reset between sub-batches: when the prefill of a
\* sub-batch starts, the cache is as KVCache.reset leaves it, every slot zero
\* and the offset cleared, so no slot holds a value of an earlier sub-batch.
C17_ResetBetweenSubBatches ==
    (pc = "prefill" /\ kv_cache.present) => kv_cache = KVCacheReset(kv_cache)

\* the slots written by update call c of the current sub-batch
Written(c) == {writes[c][t] : t \in DOMAIN writes[c]}

\* no two tokens of update call c are written to the same slot
DistinctIndices(c) ==
    \A t, u \in DOMAIN writes[c] : t # u => writes[c][t] # writes[c][u]

\* C18: within one sub-batch the prefill writes slot
\* padded_doc_start[doc] + local id of each prompt token, all distinct; each
\* decode step writes exactly one slot per sequence, all distinct; and a
\* decode step writes no slot that the prefill or an earlier decode step of
\* the sub-batch wrote.
C18_WritesAtMostOnce ==
    (InSubBatch \/ pc = "seed") =>
        /\ Len(writes) = 1 + n_steps
        /\ DOMAIN writes[1] = DOMAIN prefill_tok_id
        /\ \A p \in DOMAIN writes[1] :
              writes[1][p] = padded_doc_start[prefill_doc_id[p]]
                                 + prefill_tok_id[p]
        /\ \A c \in 1..Len(writes) : DistinctIndices(c)
        /\ \A c \in 2..Len(writes) :
              /\ DOMAIN writes[c] = DOMAIN lengths
              /\ \A b \in 1..(c - 1) : Written(b) \cap Written(c) = {}

\* two sequences in one sub-batch after the prefill and two decode steps
C18_Witness ==
    /\ InSubBatch
    /\ Size(lengths) = 2
    /\ Len(writes) = 3
    /\ Written(3) # Written(2)

\* after k decode steps every sequence is at position prompt length + k
PositionsFollowSteps ==
    (InSubBatch \/ pc = "seed") =>
        /\ DOMAIN current_tok_id = DOMAIN lengths
        /\ \A d \in DOMAIN lengths :
              /\ current_tok_id[d] = lengths[d] + n_steps
              /\ current_doc_id[d] = d

\* a decode step moves every sequence, finished or not, by exactly 1 and
\* leaves the document ids and the layout alone
StepAdvancesAll ==
    (pc = "decode" /\ pc' # "raised") =>
        /\ n_steps' = n_steps + 1
        /\ \A d \in DOMAIN lengths :
              current_tok_id'[d] = current_tok_id[d] + 1
        /\ UNCHANGED <<current_doc_id, padded_doc_start, padded_doc_id,
                       padded_tok_id, padded_lengths, lengths>>

\* C19: every decode step advances the current position of every sequence
\* of the sub-batch by exactly 1, finished or not, so that after k decode
\* steps current_tok_id[d] = lengths[d] + k for every d, while the current
\* document ids and the layout (start offsets, padded ids) do not change.
C19_PositionBookkeeping ==
    []PositionsFollowSteps /\ [][StepAdvancesAll]_vars

\* a sequence that finished at the first decode step has been advanced by
\* the second one as well
C19_Witness ==
    /\ InSubBatch
    /\ n_steps = 2
    /\ \E d \in DOMAIN lengths :
          /\ is_done[d]
          /\ Len(generated_tokens[d]) = 2
          /\ current_tok_id[d] = lengths[d] + 2

\* the slots written so far in the current sub-batch
WrittenSoFar == UNION {Written(c) : c \in 1..Len(writes)}

\* C25: after every decode step of every sub-batch, every cache slot that
\* the step's mask showed to a sequence was written during the current
\* sub-batch (by its prefill, an earlier decode step, or this step's own
\* write) and holds this sub-batch's data: not the zeros of the allocation
\* and not what an earlier sub-batch left.
C25_NoStaleRead ==
    (InSubBatch /\ n_steps >= 1) =>
        \A dp \in mask :
            /\ dp[2] \in DOMAIN kv_cache.k_cache
            /\ dp[2] \in WrittenSoFar
            /\ kv_cache.k_cache[dp[2]] = batch_no

\* a decode step of the second sub-batch, made while the cache still holds a
\* slot of the first sub-batch and a slot never written
C25_Witness ==
    /\ InSubBatch /\ n_steps >= 1
    /\ batch_no = 2
    /\ mask # {}
    /\ \E p \in DOMAIN kv_cache.k_cache : kv_cache.k_cache[p] = 1
    /\ \E p \in DOMAIN kv_cache.k_cache : kv_cache.k_cache[p] = 0

\* index idx is a slot of the cache and of the span reserved for sequence d
InsideSpan(d, idx) ==
    /\ idx \in 0..(kv_cache.seqlen - 1)
    /\ padded_doc_start[d] <= idx
    /\ idx < padded_doc_start[d] + padded_lengths[d]

\* every write made so far in the sub-batch was inside the writer's span,
\* the write of generated token k at start offset + prompt length + k
PastWritesInside ==
    (InSubBatch \/ pc = "seed") =>
        /\ \A p \in DOMAIN writes[1] :
              InsideSpan(prefill_doc_id[p], writes[1][p])
        /\ \A c \in 2..Len(writes) : \A d \in DOMAIN writes[c] :
              /\ InsideSpan(d, writes[c][d])
              /\ writes[c][d] = padded_doc_start[d] + lengths[d] + (c - 2)

\* the write the next decode step makes is inside the writer's span
NextDecodeWriteInside ==
    pc = "decode" =>
        \A d \in DOMAIN current_tok_id :
            /\ InsideSpan(d, WriteIndex(kv_cache, current_tok_id)[d])
            /\ WriteIndex(kv_cache, current_tok_id)[d] =
                   padded_doc_start[d] + lengths[d] + n_steps

\* the writes the next prefill makes are inside the cache
NextPrefillWriteInside ==
    pc = "prefill" =>
        LET lens == pack_prompts(batches[batch_no])[2]
        IN  ~SetupPrefillingRaises(lens) => ~PrefillForwardRaises(lens)

\* C26: for every configuration with a cache capacity that generate
\* accepts, every KV-cache write of the prefill and of every decode step is
\* at an index inside the cache and inside the reserved span of the
\* sequence that writes, start <= index < start + padded length; generated
\* token k (k = 0 for the seed) is written at start + prompt length + k.
C26_WritesInsideSpan ==
    Truthy(max_tokens) =>
        /\ PastWritesInside
        /\ NextDecodeWriteInside
        /\ NextPrefillWriteInside

\* the same, for the sub-batches whose reserved length fits the capacity
WritesInsideSpanWhenFits ==
    (/\ Truthy(max_tokens)
     /\ pc \in {"seed", "decode", "emit"}
     /\ ReservedLength <= max_tokens)
        => PastWritesInside /\ NextDecodeWriteInside

(***************************************************************************)
(* Properties of the sampling policy (under SpecSampler).                  *)
(***************************************************************************)
\* C15: a configuration with both top_p and top_k set is rejected at
\* construction: no generator is constructed from it and no token is ever
\* sampled under it.
C15_BothPoliciesRejected ==
    (top_p # None /\ top_k # None) => (pc = "construct" /\ sampled = <<>>)

\* with both set and a temperature above 0, every token returned is one
\* that top-p sampling alone can return
BothSetSamplesTopP ==
    (top_p # None /\ top_k # None /\ temperature > 0) =>
        \A c \in 1..Len(sampled) : \A pos \in DOMAIN logits :
            sampled[c][pos] \in sample_top_p(Softmax(logits[pos]), top_p)

\* C20: at temperature 0 every call of sample_tokens returns, at every
\* position, the argmax of the logits, whatever top_p and top_k are, so two
\* calls on the same logits return the same tokens.
C20_GreedyIsArgmax ==
    temperature = 0 =>
        /\ \A c \in 1..Len(sampled) : \A pos \in DOMAIN logits :
              /\ \A t \in DOMAIN logits[pos] :
                    logits[pos][t] <= logits[pos][sampled[c][pos]]
              /\ \A t \in DOMAIN logits[pos] :
                    t < sampled[c][pos] =>
                        logits[pos][t] < logits[pos][sampled[c][pos]]
        /\ Len(sampled) = 2 => sampled[1] = sampled[2]

\* two greedy calls under a policy with top_p and top_k set, on two
\* positions whose largest logits are at different tokens
C20_Witness ==
    /\ temperature = 0 /\ top_p # None /\ top_k # None
    /\ pc = "sampled_twice"
    /\ DOMAIN logits = {0, 1}
    /\ sampled[2][0] # sampled[2][1]

(***************************************************************************)
(* Properties of the two-prompt scenario (under SpecScenario).             *)
(***************************************************************************)
\* the call runs as the scenario describes: it does not raise, the layout is
\* padded lengths [5, 7] at start offsets [0, 5], each sequence has one
\* token after the seed step, and both have two tokens when the sub-batch
\* ends, after at most one decode step
ScenarioRuns ==
    /\ pc # "raised"
    /\ pc \in {"seed", "decode", "emit", "returned"} =>
          /\ lengths = Tensor(<<3, 5>>)
          /\ padded_lengths = Tensor(<<5, 7>>)
          /\ padded_doc_start = Tensor(<<0, 5>>)
    /\ JustSeeded =>
          \A d \in DOMAIN lengths : Len(generated_tokens[d]) = 1
    /\ pc \in {"emit", "returned"} =>
          /\ n_steps <= 1
          /\ \A d \in DOMAIN lengths : Len(generated_tokens[d]) = 2

\* C21: for two prompts of 3 and 5 tokens, max_gen_len = 2 and no cache
\* capacity configured, the layout is padded lengths [5, 7] and start
\* offsets [0, 5]; after prefill each sequence has exactly one seed token,
\* and after at most one decode step both have exactly 2 generated tokens.
C21_Scenario == max_tokens = None => ScenarioRuns

\* the same scenario with the capacity 12 configured
ScenarioWithCapacity == max_tokens = 12 => ScenarioRuns

\* what setup_prefilling computes for lengths [3, 5] with no capacity
ScenarioLayout ==
    max_tokens = None =>
        /\ PaddedLengths(Tensor(<<3, 5>>)) = Tensor(<<5, 7>>)
        /\ PaddedDocStart(Tensor(<<3, 5>>)) = Tensor(<<0, 5>>)

(***************************************************************************)
(* Properties of the sequence packer (under SpecPacker).                   *)
(***************************************************************************)
\* the flat buffer is the sequences one after the other in input order, the
\* length vector holds their lengths in that order, and the lengths add up
\* to the size of the buffer
PackedIsConcatenation ==
    /\ DOMAIN lengths = 0..(Len(prompts) - 1)
    /\ \A d \in DOMAIN lengths : lengths[d] = Len(prompts[d + 1])
    /\ Sum(lengths) = Len(packed_batch)
    /\ \A d \in DOMAIN lengths : \A j \in 1..lengths[d] :
          packed_batch[SumTo(lengths, d) + j] = prompts[d + 1][j]

\* C23 as stated: for every ordered list of token-id sequences pack_prompts
\* returns the concatenation in input order as the flat buffer and the
\* sequences' lengths in the same order, with sum(lengths) the size of the
\* buffer.
C23_PackAnyList ==
    pc # "call_pack_prompts" =>
        (pc = "pack_prompts_returned" /\ PackedIsConcatenation)

\* C23: the same for every non-empty list; for the empty list pack_prompts
\* raises.
C23_PackNonEmptyList ==
    pc # "call_pack_prompts" =>
        IF prompts = <<>> THEN pc = "pack_prompts_raised"
        ELSE pc = "pack_prompts_returned" /\ PackedIsConcatenation

\* three sequences packed, an empty one between two different ones
C23_Witness ==
    /\ pc = "pack_prompts_returned"
    /\ Len(prompts) = 3
    /\ Len(prompts[1]) = 2 /\ prompts[2] = <<>> /\ Len(prompts[3]) = 1
    /\ prompts[1][1] # prompts[3][1]
    /\ Len(packed_batch) = 3

(***************************************************************************)
(* Properties of the tokenizer (under SpecTokenizer).                      *)
(***************************************************************************)
\* every character of the text is printable ASCII
PrintableAscii(text) == \A k \in 1..Len(text) : text[k] \in 32..126

\* C24: for every printable-ASCII text, decode(encode(text, add_bos,
\* add_eos)) is the text, for every setting of add_bos and add_eos: the
\* tokens are the text's bytes, and decode drops the ids from 256 on.
C24_RoundTrip ==
    (pc = "decoded" /\ PrintableAscii(prompts[1])) =>
        /\ generation[1] = prompts[1]
        /\ SelectSeq(cut_prompts[1], LAMBDA t : t < 256) = prompts[1]

\* a two-character text encoded with both add_bos and add_eos, and decoded
C24_Witness ==
    /\ pc = "decoded"
    /\ prompts[1] = <<32, 126>>
    /\ cut_prompts[1] = <<bos_id, 32, 126, eos_id>>
    /\ generation[1] = <<32, 126>>

\* the round trip holds for the two-byte character as well
RoundTripOfAnyText == pc = "decoded" => generation[1] = prompts[1]

\* ---------------------------------------------------------------------
\* Properties of generate: termination
\* ---------------------------------------------------------------------

\* every sequence of the current sub-batch has met a stop condition
AllDone == \A d \in DOMAIN is_done : is_done[d]

\* the sub-batches are taken one after the other, each through prefill,
\* seed, decode steps and emit, and only emit moves to the next one
SubBatchInOrder ==
    /\ pc = "prefill" => pc' \in {"seed", "raised"}
    /\ pc = "seed" => pc' \in {"decode", "emit", "raised"}
    /\ pc = "decode" => pc' \in {"decode", "emit", "raised"}
    /\ pc = "emit" =>
           /\ batch_no' = batch_no + 1
           /\ pc' = IF batch_no' <= Len(batches) THEN "prefill"
                    ELSE "returned"
    /\ pc \in {"prefill", "seed", "decode"} =>
           batch_no' = batch_no /\ batches' = batches
    /\ pc' = "prefill" => batch_no' \in 1..Len(batches')

\* a sub-batch is left for emit only with all its sequences done or with
\* the loop counter past the generation budget
EndsDoneOrExhausted == pc = "emit" => (AllDone \/ ~InRange(i))

\* C27: for every list of prompts and every max_gen_len, generate
\* eventually returns; each sub-batch is processed once, in batcher order
\* (prefill, seed, decode steps, emit), and ends only because all its
\* sequences are done or the generation budget is exhausted
C27_Termination ==
    /\ <>(pc = "returned")
    /\ [][SubBatchInOrder]_vars
    /\ [](EndsDoneOrExhausted)

\* generate never runs forever: it returns or it raises, and up to there
\* the sub-batches are processed in order and end as C27 says
TerminatesOrRaises ==
    /\ <>(pc \in {"returned", "raised"})
    /\ [][SubBatchInOrder]_vars
    /\ [](EndsDoneOrExhausted)

\* when the reserved length of every sequence fits a positive capacity and
\* no prompt is cut to nothing, generate returns
ReturnsWhenFits ==
    (/\ Truthy(max_tokens)
     /\ Truthy(max_prompt_len_used)
     /\ max_prompt_len_used > 0
     /\ max_prompt_len_used + max_gen_len <= max_tokens)
        => <>(pc = "returned")

====
